---- MODULE Spec2Model ----
(***************************************************************************)
(* daily-diet: the route handlers of src/src/app.ts (usersRoutes) over the *)
(* two tables `users` and `meal`.                                          *)
(*                                                                         *)
(*   Spec         requests of any users, each run to completion            *)
(*   SpecPatch    PATCH /meal/:id with every request body on one meal      *)
(*   SpecConc     two connections whose PATCH requests interleave: the     *)
(*                read and the write are separate store operations         *)
(*   SpecMetrics  GET /metrics/ whose four queries interleave with the     *)
(*                same user's writes                                       *)
(*   SpecScan     the streak loop of GET /metrics/ on a drawn sequence     *)
(***************************************************************************)
EXTENDS Integers, Sequences, FiniteSets

VARIABLES
    users,        \* table users: rows [id, session_id]
    meal,         \* table meal: rows [id, user_id, name, description, ate_at, is_diet]
    mealIds,      \* number of meal ids drawn from randomUUID so far
    patching,     \* per connection: the PATCH between its read and its write
    metrics,      \* the GET /metrics/ between two of its queries
    resp,         \* the last reply sent
    sortedMeals,  \* GET /metrics/: the ordered select the loop scans
    i,            \* GET /metrics/: loop index (0-based, as in the code)
    score,        \* GET /metrics/: running streak
    bestScore,    \* GET /metrics/: best streak
    reported,     \* GET /metrics/: the value returned as score.bestScore
    scanPc        \* GET /metrics/: "loop" while scanning, "done" once returned

storeVars == <<users, meal, mealIds, patching, metrics, resp>>
scanVars == <<sortedMeals, i, score, bestScore, reported, scanPc>>
vars == <<users, meal, mealIds, patching, metrics, resp,
          sortedMeals, i, score, bestScore, reported, scanPc>>

----------------------------------------------------------------------------
(* Bounds *)

MaxUsers == 2
MaxMeals == 2
MaxScanLen == 4

(* Values *)

\* JavaScript undefined: the result of .first() on no row, of `user?.id` on no user
Undefined == [undefined |-> TRUE]
\* SQL NULL in meal.user_id (the column is a nullable foreign key); uuids are 1, 2, ...
NULL == 0
\* a sessionId cookie value that randomUUID never issued
StrangerCookie == 0
\* a request that carries no sessionId cookie
NoCookie == -1

\* a nullable request field / an update column: <<>> is null or undefined, <<v>> is v
Null == <<>>
Some(v) == <<v>>

NameValues == {"a", "b"}
DescriptionValues == {"x", "y"}
\* date strings the client sends; two spellings of the same instant
DateStrings == {"2024-01-01", "2024-01-02", "2024-01-02T00:00:00.000Z"}
\* the connections serving requests concurrently
Procs == {"c1", "c2"}
\* new Date(s): the instant, in days since 2023-12-31
NewDate(s) == IF s = "2024-01-01" THEN 1 ELSE 2
DateValues == {NewDate(s) : s \in DateStrings}

Cookies == {NoCookie, StrangerCookie} \cup (1..MaxUsers)
\* ids a request can name: any id issued so far, or one never issued
RequestIds == 0..mealIds

\* z.object({name: z.string(), description: z.string(), ate_at: z.string(), is_diet: z.boolean()})
createMealBodySchema ==
    [name : NameValues, description : DescriptionValues,
     ate_at : DateStrings, is_diet : BOOLEAN]

\* z.object of four nullable fields; "" is a string the schema accepts
updateMealBodySchema ==
    [name : {Null, Some("")} \cup {Some(n) : n \in NameValues},
     description : {Null} \cup {Some(d) : d \in DescriptionValues},
     ate_at : {Null, Some("2024-01-01"), Some("2024-01-02")},
     is_diet : {Null, Some(FALSE), Some(TRUE)}]

\* the request bodies the clients of Spec, SpecConc and SpecMetrics send
CreateBodies ==
    {[name |-> "a", description |-> "x", ate_at |-> "2024-01-01", is_diet |-> TRUE],
     [name |-> "b", description |-> "y", ate_at |-> "2024-01-02T00:00:00.000Z",
      is_diet |-> FALSE]}

PatchBodies ==
    {[name |-> Some(""), description |-> Null, ate_at |-> Null, is_diet |-> Some(FALSE)],
     [name |-> Some("b"), description |-> Some("y"), ate_at |-> Some("2024-01-02"),
      is_diet |-> Some(TRUE)]}

\* PATCH bodies that supply one field each
FieldPatchBodies ==
    {[name |-> Some("b"), description |-> Null, ate_at |-> Null, is_diet |-> Null],
     [name |-> Null, description |-> Null, ate_at |-> Null, is_diet |-> Some(TRUE)],
     [name |-> Null, description |-> Null, ate_at |-> Null, is_diet |-> Some(FALSE)]}

----------------------------------------------------------------------------
(* The preHandler of every route but POST /users/ *)

\* checkSessionIdExists: the request goes on to the handler iff it carries the cookie
checkSessionIdExists(cookie) == cookie # NoCookie

----------------------------------------------------------------------------
(* The query builder *)

\* knex('users').where('session_id', sessionId).first()
UserOf(cookie) ==
    IF \E u \in users : u.session_id = cookie
    THEN CHOOSE u \in users : u.session_id = cookie
    ELSE Undefined

\* (mutant) the where clause without the user_id column
MealWhereAnyOwner(table, id, uid) == {r \in table : r.id = id}

\* knex('meal').where({id, user_id: user.id})
MealWhere(table, id, uid) == {r \in table : r.id = id /\ r.user_id = uid}

\* (mutant) the where clause left out: every user's meals
MealsOfAnyone(table, uid) == table

\* knex('meal').where({user_id: user.id})
MealsOf(table, uid) == {r \in table : r.user_id = uid}

\* .count('*') of where({user_id}), of where({user_id, is_diet: true}), of
\* where({user_id, is_diet: false})
CountAll(table, uid) == Cardinality(MealsOf(table, uid))
\* (mutant) the count of is_diet: true without its is_diet column
CountInDietAll(table, uid) == Cardinality(MealsOf(table, uid))
CountInDiet(table, uid) == Cardinality({r \in MealsOf(table, uid) : r.is_diet})
CountOutDiet(table, uid) == Cardinality({r \in MealsOf(table, uid) : ~r.is_diet})

\* .first()
First(rows) == IF rows = {} THEN Undefined ELSE CHOOSE r \in rows : TRUE

\* meal?.field, as an update column
Field(m, f) == IF m = Undefined THEN Null ELSE Some(m[f])

\* JavaScript truthiness of a nullable string / boolean
TruthyString(v) == v # Null /\ v[1] # ""
TruthyBoolean(v) == v # Null /\ v[1]

\* (mutant) ?? in place of ||: only null gives way to the stored value
PatchColumnsNullish(body, m) ==
    [name |-> IF body.name # Null THEN body.name ELSE Field(m, "name"),
     description |-> IF body.description # Null THEN body.description
                     ELSE Field(m, "description"),
     is_diet |-> IF body.is_diet # Null THEN body.is_diet ELSE Field(m, "is_diet"),
     ate_at |-> IF body.ate_at # Null THEN Some(NewDate(body.ate_at[1]))
                ELSE Field(m, "ate_at")]

\* (mutant) a falsy is_diet gives way to the column default, true
PatchColumnsDefaultDiet(body, m) ==
    [name |-> IF TruthyString(body.name) THEN body.name ELSE Field(m, "name"),
     description |-> IF TruthyString(body.description) THEN body.description
                     ELSE Field(m, "description"),
     is_diet |-> IF TruthyBoolean(body.is_diet) THEN body.is_diet ELSE Some(TRUE),
     ate_at |-> IF TruthyString(body.ate_at) THEN Some(NewDate(body.ate_at[1]))
                ELSE Field(m, "ate_at")]

\* the object handed to .update() by PATCH /meal/:id
PatchColumns(body, m) ==
    [name |-> IF TruthyString(body.name) THEN body.name ELSE Field(m, "name"),
     description |-> IF TruthyString(body.description) THEN body.description
                     ELSE Field(m, "description"),
     is_diet |-> IF TruthyBoolean(body.is_diet) THEN body.is_diet ELSE Field(m, "is_diet"),
     ate_at |-> IF TruthyString(body.ate_at) THEN Some(NewDate(body.ate_at[1]))
                ELSE Field(m, "ate_at")]

\* one row after .update(cols): undefined columns are left out of the SET clause
Updated(r, cols) ==
    [id |-> r.id, user_id |-> r.user_id,
     name |-> IF cols.name = Null THEN r.name ELSE cols.name[1],
     description |-> IF cols.description = Null THEN r.description ELSE cols.description[1],
     ate_at |-> IF cols.ate_at = Null THEN r.ate_at ELSE cols.ate_at[1],
     is_diet |-> IF cols.is_diet = Null THEN r.is_diet ELSE cols.is_diet[1]]

\* (mutant) an upsert: when no row matches, the columns are inserted as a row
UpdateOrInsert(table, id, uid, cols) ==
    IF (\E r \in table : r.id = id /\ r.user_id = uid) \/ Null \in {cols.name, cols.description, cols.ate_at, cols.is_diet}
    THEN {IF r.id = id /\ r.user_id = uid THEN Updated(r, cols) ELSE r : r \in table}
    ELSE table \cup {[id |-> id, user_id |-> uid, name |-> cols.name[1],
                       description |-> cols.description[1], ate_at |-> cols.ate_at[1],
                       is_diet |-> cols.is_diet[1]]}

\* knex('meal').where({id, user_id}).update(cols)
Update(table, id, uid, cols) ==
    {IF r.id = id /\ r.user_id = uid THEN Updated(r, cols) ELSE r : r \in table}

\* what .update() resolves to, sent as {meal}: the number of rows it matched
Affected(rows) == [meal |-> Cardinality(rows)]

\* knex('meal').where({id, user_id}).del()
Del(table, id, uid) == table \ MealWhere(table, id, uid)

\* (mutant) is_diet left out of the insert: the column default, true, is stored
NewMealDefaultDiet(id, uid, body) ==
    [id |-> id, user_id |-> uid, name |-> body.name, description |-> body.description,
     ate_at |-> NewDate(body.ate_at), is_diet |-> TRUE]

\* the row inserted by POST /meal/
NewMeal(id, uid, body) ==
    [id |-> id, user_id |-> uid, name |-> body.name, description |-> body.description,
     ate_at |-> NewDate(body.ate_at), is_diet |-> body.is_diet]

----------------------------------------------------------------------------
(* The streak loop of GET /metrics/ *)

\* (mutant) the comparison that updates bestScore reversed
LoopBodyReversed(st, m) ==
    LET s == IF m.is_diet THEN st.score + 1 ELSE 0
    IN  [score |-> s, bestScore |-> IF s < st.bestScore THEN s ELSE st.bestScore]

\* one iteration of the for loop on row m
LoopBody(st, m) ==
    LET s == IF m.is_diet THEN st.score + 1 ELSE 0
    IN  [score |-> s, bestScore |-> IF s > st.bestScore THEN s ELSE st.bestScore]

RECURSIVE Loop(_, _, _)
Loop(seq, k, st) ==
    IF k < Len(seq) THEN Loop(seq, k + 1, LoopBody(st, seq[k + 1])) ELSE st

\* the value returned under score.bestScore
Reported(st) == st.score

\* .orderBy('ate_at').select(): any order of the rows that ascends in ate_at
Ordered(rows) ==
    {s \in [1..Cardinality(rows) -> rows] :
        /\ \A a, b \in DOMAIN s : a # b => s[a] # s[b]
        /\ \A a, b \in DOMAIN s : a < b => s[a].ate_at <= s[b].ate_at}

\* the reply of GET /metrics/
MetricsReply(total, inD, outD, sorted) ==
    [mealsCount |-> total, inDiet |-> inD, outDiet |-> outD,
     bestScore |-> Reported(Loop(sorted, 0, [score |-> 0, bestScore |-> 0]))]

----------------------------------------------------------------------------
(* Replies *)

Reply(op, cookie, id, status, body) ==
    [op |-> op, cookie |-> cookie, id |-> id, status |-> status, body |-> body]

NoReply == Reply("none", StrangerCookie, 0, 0, Undefined)

Idle == [kind |-> "idle"]

\* a write of user uid falls between the queries of that user's GET /metrics/
Disturbed(m, uid) ==
    IF m # Idle /\ m.uid = uid THEN [m EXCEPT !.clean = FALSE] ELSE m

StoreInit ==
    /\ users = {}
    /\ meal = {}
    /\ mealIds = 0
    /\ patching = [p \in Procs |-> Idle]
    /\ metrics = Idle
    /\ resp = NoReply

ScanIdle ==
    /\ sortedMeals = <<>>
    /\ i = 0
    /\ score = 0
    /\ bestScore = 0
    /\ reported = 0
    /\ scanPc = "idle"

Init == StoreInit /\ ScanIdle

----------------------------------------------------------------------------
(* Handlers.  Each handler first resolves the cookie to a user; the users    *)
(* table only grows and a cookie cannot name a session issued later, so the  *)
(* lookup is taken together with the handler's first query on `meal`.        *)
(* A where clause on user_id: undefined makes the query builder throw.       *)

\* POST /users/
Register(u) ==
    /\ u = Cardinality(users) + 1
    /\ users' = users \cup {[id |-> u, session_id |-> u]}
    /\ resp' = Reply("register", u, 0, 201, Undefined)
    /\ UNCHANGED <<meal, mealIds, patching, metrics>>
    /\ UNCHANGED scanVars

\* POST /meal/
CreateMeal(cookie, body, id) ==
    /\ id = mealIds + 1
    /\ LET user == UserOf(cookie)
       IN  IF ~checkSessionIdExists(cookie)
           THEN /\ resp' = Reply("createMeal", cookie, 0, 401, Undefined)
                /\ UNCHANGED <<meal, mealIds, metrics>>
           ELSE IF user # Undefined
           THEN /\ meal' = meal \cup {NewMeal(id, user.id, body)}
                /\ mealIds' = id
                /\ resp' = Reply("createMeal", cookie, 0, 201, Undefined)
                /\ metrics' = Disturbed(metrics, user.id)
           ELSE \* user_id: undefined is bound as NULL, or the driver refuses it
                \/ /\ meal' = meal \cup {NewMeal(id, NULL, body)}
                   /\ mealIds' = id
                   /\ resp' = Reply("createMeal", cookie, 0, 201, Undefined)
                   /\ UNCHANGED metrics
                \/ /\ resp' = Reply("createMeal", cookie, 0, 500, Undefined)
                   /\ UNCHANGED <<meal, mealIds, metrics>>
    /\ UNCHANGED <<users, patching>>
    /\ UNCHANGED scanVars

\* the body of the reply of GET /meal/:id
GetMealBody(cookie, id) == First(MealWhere(meal, id, UserOf(cookie).id))

\* GET /meal/:id
GetMeal(cookie, id) ==
    /\ IF ~checkSessionIdExists(cookie)
       THEN resp' = Reply("getMeal", cookie, 0, 401, Undefined)
       ELSE IF UserOf(cookie) = Undefined
       THEN resp' = Reply("getMeal", cookie, 0, 500, Undefined)
       ELSE resp' = Reply("getMeal", cookie, id, 200, GetMealBody(cookie, id))
    /\ UNCHANGED <<users, meal, mealIds, patching, metrics>>
    /\ UNCHANGED scanVars

\* DELETE /meal/:id
DeleteMeal(cookie, id) ==
    /\ LET user == UserOf(cookie)
       IN  IF ~checkSessionIdExists(cookie)
           THEN /\ resp' = Reply("deleteMeal", cookie, 0, 401, Undefined)
                /\ UNCHANGED <<meal, metrics>>
           ELSE IF user = Undefined
           THEN /\ resp' = Reply("deleteMeal", cookie, 0, 500, Undefined)
                /\ UNCHANGED <<meal, metrics>>
           ELSE /\ meal' = Del(meal, id, user.id)
                /\ resp' = Reply("deleteMeal", cookie, id, 204, Undefined)
                /\ metrics' = Disturbed(metrics, user.id)
    /\ UNCHANGED <<users, mealIds, patching>>
    /\ UNCHANGED scanVars

\* PATCH /meal/:id, its read and its write back to back
PatchMeal(cookie, id, body) ==
    /\ LET user == UserOf(cookie)
       IN  IF ~checkSessionIdExists(cookie)
           THEN /\ resp' = Reply("patchMeal", cookie, 0, 401, Undefined)
                /\ UNCHANGED <<meal, metrics>>
           ELSE IF user = Undefined
           THEN /\ resp' = Reply("patchMeal", cookie, 0, 500, Undefined)
                /\ UNCHANGED <<meal, metrics>>
           ELSE LET m == First(MealWhere(meal, id, user.id))
                IN  /\ meal' = Update(meal, id, user.id, PatchColumns(body, m))
                    /\ resp' = Reply("patchMeal", cookie, id, 200,
                                     Affected(MealWhere(meal, id, user.id)))
                    /\ metrics' = Disturbed(metrics, user.id)
    /\ UNCHANGED <<users, mealIds, patching>>
    /\ UNCHANGED scanVars

\* PATCH /meal/:id on connection p, up to its read
PatchRead(p, cookie, id) ==
    /\ patching[p] = Idle
    /\ LET user == UserOf(cookie)
       IN  IF ~checkSessionIdExists(cookie)
           THEN /\ resp' = Reply("patchMeal", cookie, 0, 401, Undefined)
                /\ UNCHANGED patching
           ELSE IF user = Undefined
           THEN /\ resp' = Reply("patchMeal", cookie, 0, 500, Undefined)
                /\ UNCHANGED patching
           ELSE /\ patching' = [patching EXCEPT ![p] =
                                   [kind |-> "patch", cookie |-> cookie, uid |-> user.id,
                                    id |-> id, meal |-> First(MealWhere(meal, id, user.id))]]
                /\ UNCHANGED resp
    /\ UNCHANGED <<users, meal, mealIds, metrics>>
    /\ UNCHANGED scanVars

\* PATCH /meal/:id on connection p, its write and reply.  The body is parsed
\* before the read; nothing uses it until here, so it is drawn here.
PatchWrite(p, body) ==
    /\ patching[p] # Idle
    /\ LET req == patching[p]
       IN  /\ meal' = Update(meal, req.id, req.uid, PatchColumns(body, req.meal))
           /\ resp' = Reply("patchMeal", req.cookie, req.id, 200,
                            Affected(MealWhere(meal, req.id, req.uid)))
           /\ metrics' = Disturbed(metrics, req.uid)
    /\ patching' = [patching EXCEPT ![p] = Idle]
    /\ UNCHANGED <<users, mealIds>>
    /\ UNCHANGED scanVars

\* GET /metrics/, its four queries back to back
Metrics(cookie) ==
    /\ metrics = Idle
    /\ LET user == UserOf(cookie)
       IN  IF ~checkSessionIdExists(cookie)
           THEN resp' = Reply("metrics", cookie, 0, 401, Undefined)
           ELSE IF user = Undefined
           THEN resp' = Reply("metrics", cookie, 0, 500, Undefined)
           ELSE \E sorted \in Ordered(MealsOf(meal, user.id)) :
                    resp' = Reply("metrics", cookie, 0, 200,
                                  MetricsReply(CountAll(meal, user.id),
                                               CountInDiet(meal, user.id),
                                               CountOutDiet(meal, user.id),
                                               sorted))
    /\ UNCHANGED <<users, meal, mealIds, patching, metrics>>
    /\ UNCHANGED scanVars

\* GET /metrics/: the total count
MetricsTotal(cookie) ==
    /\ metrics = Idle
    /\ LET user == UserOf(cookie)
       IN  IF ~checkSessionIdExists(cookie)
           THEN /\ resp' = Reply("metrics", cookie, 0, 401, Undefined)
                /\ UNCHANGED metrics
           ELSE IF user = Undefined
           THEN /\ resp' = Reply("metrics", cookie, 0, 500, Undefined)
                /\ UNCHANGED metrics
           ELSE /\ metrics' = [kind |-> "inDiet", cookie |-> cookie, uid |-> user.id,
                               mealsCount |-> CountAll(meal, user.id),
                               inDiet |-> 0, outDiet |-> 0, clean |-> TRUE]
                /\ UNCHANGED resp
    /\ UNCHANGED <<users, meal, mealIds, patching>>
    /\ UNCHANGED scanVars

\* GET /metrics/: the count of is_diet: true
MetricsInDiet ==
    /\ metrics # Idle
    /\ metrics.kind = "inDiet"
    /\ metrics' = [metrics EXCEPT
                     !.kind = "outDiet",
                     !.inDiet = CountInDiet(meal, metrics.uid)]
    /\ UNCHANGED <<users, meal, mealIds, patching, resp>>
    /\ UNCHANGED scanVars

\* GET /metrics/: the count of is_diet: false
MetricsOutDiet ==
    /\ metrics # Idle
    /\ metrics.kind = "outDiet"
    /\ metrics' = [metrics EXCEPT
                     !.kind = "select",
                     !.outDiet = CountOutDiet(meal, metrics.uid)]
    /\ UNCHANGED <<users, meal, mealIds, patching, resp>>
    /\ UNCHANGED scanVars

\* GET /metrics/: the ordered select, the loop and the reply
MetricsSelect ==
    /\ metrics # Idle
    /\ metrics.kind = "select"
    /\ \E sorted \in Ordered(MealsOf(meal, metrics.uid)) :
           resp' = Reply("metrics", metrics.cookie, 0, 200,
                         MetricsReply(metrics.mealsCount, metrics.inDiet,
                                      metrics.outDiet, sorted))
    /\ metrics' = Idle
    /\ UNCHANGED <<users, meal, mealIds, patching>>
    /\ UNCHANGED scanVars

----------------------------------------------------------------------------
(* Spec: requests of any users, each run to completion *)

Next ==
    \/ \E u \in 1..MaxUsers : Register(u)
    \/ \E c \in Cookies, b \in CreateBodies, id \in 1..MaxMeals : CreateMeal(c, b, id)
    \/ \E c \in Cookies, id \in RequestIds : GetMeal(c, id)
    \/ \E c \in Cookies, id \in RequestIds : DeleteMeal(c, id)
    \/ \E c \in Cookies, id \in RequestIds, b \in PatchBodies : PatchMeal(c, id, b)
    \/ \E c \in Cookies : Metrics(c)

Spec == Init /\ [][Next]_vars

----------------------------------------------------------------------------
(* SpecPatch: one registered user who owns one meal, any stored values *)

InitPatch ==
    /\ users = {[id |-> 1, session_id |-> 1]}
    /\ \E b \in createMealBodySchema : meal = {NewMeal(1, 1, b)}
    /\ mealIds = 1
    /\ patching = [p \in Procs |-> Idle]
    /\ metrics = Idle
    /\ resp = NoReply
    /\ ScanIdle

NextPatch ==
    \/ \E c \in Cookies, id \in RequestIds, b \in updateMealBodySchema : PatchMeal(c, id, b)
    \/ \E c \in Cookies, id \in RequestIds : GetMeal(c, id)

SpecPatch == InitPatch /\ [][NextPatch]_vars

----------------------------------------------------------------------------
(* SpecConc: one registered user whose PATCH requests, on two connections, *)
(* interleave with each other and with that user's other requests          *)

InitConc ==
    /\ users = {[id |-> 1, session_id |-> 1]}
    /\ meal = {}
    /\ mealIds = 0
    /\ patching = [p \in Procs |-> Idle]
    /\ metrics = Idle
    /\ resp = NoReply
    /\ ScanIdle

\* the cookies of the registered users
Sessions == {u.session_id : u \in users}

NextConc ==
    \/ \E c \in Sessions, b \in CreateBodies, id \in 1..MaxMeals : CreateMeal(c, b, id)
    \/ \E c \in Sessions, id \in RequestIds : GetMeal(c, id)
    \/ \E c \in Sessions, id \in RequestIds : DeleteMeal(c, id)
    \/ \E p \in Procs, c \in Sessions, id \in RequestIds : PatchRead(p, c, id)
    \/ \E p \in Procs, b \in FieldPatchBodies : PatchWrite(p, b)

SpecConc == InitConc /\ [][NextConc]_vars

----------------------------------------------------------------------------
(* SpecMetrics: the queries of GET /metrics/ interleave with writes *)

NextMetrics ==
    \/ \E c \in Sessions, b \in CreateBodies, id \in 1..MaxMeals : CreateMeal(c, b, id)
    \/ \E c \in Sessions, id \in RequestIds : DeleteMeal(c, id)
    \/ \E c \in Sessions, id \in RequestIds, b \in FieldPatchBodies : PatchMeal(c, id, b)
    \/ \E c \in Sessions : MetricsTotal(c)
    \/ MetricsInDiet
    \/ MetricsOutDiet
    \/ MetricsSelect

SpecMetrics == InitConc /\ [][NextMetrics]_vars

----------------------------------------------------------------------------
(* SpecScan: the streak loop on any sequence an ordered select can return *)

\* the columns of a row that the ordered select and the loop read
ScanRows == [ate_at : DateValues, is_diet : BOOLEAN]

InitScan ==
    /\ StoreInit
    /\ sortedMeals \in {s \in UNION {[1..n -> ScanRows] : n \in 0..MaxScanLen} :
                           \A a, b \in DOMAIN s : a < b => s[a].ate_at <= s[b].ate_at}
    /\ i = 0
    /\ score = 0
    /\ bestScore = 0
    /\ reported = 0
    /\ scanPc = "loop"

\* one iteration of the for loop
LoopStep ==
    /\ scanPc = "loop"
    /\ i < Len(sortedMeals)
    /\ LET st == LoopBody([score |-> score, bestScore |-> bestScore], sortedMeals[i + 1])
       IN  /\ score' = st.score
           /\ bestScore' = st.bestScore
    /\ i' = i + 1
    /\ UNCHANGED <<sortedMeals, reported, scanPc>>
    /\ UNCHANGED storeVars

\* the loop condition fails: return
Return ==
    /\ scanPc = "loop"
    /\ ~(i < Len(sortedMeals))
    /\ reported' = Reported([score |-> score, bestScore |-> bestScore])
    /\ scanPc' = "done"
    /\ UNCHANGED <<sortedMeals, i, score, bestScore>>
    /\ UNCHANGED storeVars

NextScan == LoopStep \/ Return

SpecScan == InitScan /\ [][NextScan]_vars

----------------------------------------------------------------------------
(* Properties of the streak loop (SpecScan) *)

\* the longest run of consecutive diet-compliant rows of seq
MaxRun(seq) ==
    LET runs == {ab \in (1..Len(seq)) \X (1..Len(seq)) :
                    /\ ab[1] <= ab[2]
                    /\ \A k \in ab[1]..ab[2] : seq[k].is_diet}
    IN  IF runs = {} THEN 0
        ELSE CHOOSE n \in 1..Len(seq) :
                 /\ \E ab \in runs : ab[2] - ab[1] + 1 = n
                 /\ \A ab \in runs : ab[2] - ab[1] + 1 <= n

\* C1: the value GET /users/metrics/ reports as score.bestScore is the longest run
\* of consecutive diet-compliant meals in ascending ate_at order
C1_ReportedIsBestStreak ==
    scanPc = "done" => reported = MaxRun(sortedMeals)

\* C7: when the scan finishes, bestScore >= score, and bestScore equals the number
\* of meals scanned iff every scanned meal is diet-compliant
C7_ScanEnd ==
    scanPc = "done" =>
        /\ bestScore >= score
        /\ (bestScore = Len(sortedMeals)) <=>
               (\A k \in 1..Len(sortedMeals) : sortedMeals[k].is_diet)

\* a finished scan of a sequence whose best run lies before its last run
C7_Witness ==
    /\ scanPc = "done"
    /\ Len(sortedMeals) >= 4
    /\ score > 0
    /\ bestScore > score

----------------------------------------------------------------------------
(* Properties of the store under requests run to completion (Spec) *)

\* the cookie resolves to the user whose id is uid
ResolvesTo(cookie, uid) == \E u \in users : u.session_id = cookie /\ u.id = uid

\* C2: a request of user A that names the id of a meal of another user B never
\* returns that meal (GET) and leaves the meal table unchanged (PATCH, DELETE)
C2_OwnershipIsolation ==
    /\ [](resp.op = "getMeal" =>
             \/ resp.body = Undefined
             \/ ResolvesTo(resp.cookie, resp.body.user_id))
    /\ [][(/\ resp'.op \in {"deleteMeal", "patchMeal"}
            /\ \E r \in meal : r.id = resp'.id /\ ~ResolvesTo(resp'.cookie, r.user_id)
            /\ \/ DeleteMeal(resp'.cookie, resp'.id)
               \/ \E b \in PatchBodies : PatchMeal(resp'.cookie, resp'.id, b))
           => meal' = meal]_vars

\* user A's DELETE or PATCH named a meal of user B, and B's meal is still stored
C2_Witness ==
    /\ resp.op \in {"deleteMeal", "patchMeal"}
    /\ resp.status \in {200, 204}
    /\ \E r \in meal, a, b \in users :
           /\ r.id = resp.id
           /\ a.session_id = resp.cookie
           /\ b.id = r.user_id
           /\ a # b

C5_CreateThenGet ==
    /\ [][\A c \in {k \in Cookies : \E u \in users : u.session_id = k}, b \in CreateBodies :
             (/\ resp'.op = "createMeal"
              /\ resp'.cookie = c
              /\ CreateMeal(c, b, mealIds + 1))
             => /\ Cardinality(meal' \ meal) = 1
                /\ meal \subseteq meal'
                /\ \A r \in meal' \ meal :
                       /\ \A t \in meal : t.id # r.id
                       /\ r.id > mealIds
                       /\ ResolvesTo(c, r.user_id)
                       /\ r.name = b.name
                       /\ r.description = b.description
                       /\ r.ate_at = NewDate(b.ate_at)
                       /\ r.is_diet = b.is_diet
                       /\ GetMealBody(c, r.id)' = r]_vars
    /\ [](resp.op = "getMeal" =>
             \A r \in meal :
                 r.id = resp.id /\ ResolvesTo(resp.cookie, r.user_id) => resp.body = r)
    /\ [][\A r \in meal :
             r \notin meal' =>
                 /\ resp'.op \in {"deleteMeal", "patchMeal"}
                 /\ resp'.id = r.id
                 /\ ResolvesTo(resp'.cookie, r.user_id)]_vars

\* the owner fetched a meal created with is_diet = false while owning another meal
C5_Witness ==
    /\ resp.op = "getMeal"
    /\ resp.status = 200
    /\ resp.body # Undefined
    /\ resp.body.is_diet = FALSE
    /\ resp.body.name = "b"
    /\ \E r \in meal : r.id # resp.id /\ r.user_id = resp.body.user_id

\* C8: when the caller owns no meals, GET /users/metrics/ reports all zeros
C8_EmptyMetrics ==
    (/\ resp.op = "metrics"
     /\ resp.status = 200
     /\ ~\E r \in meal : ResolvesTo(resp.cookie, r.user_id))
    => resp.body = [mealsCount |-> 0, inDiet |-> 0, outDiet |-> 0, bestScore |-> 0]

\* metrics of a user who owns nothing while another user owns a meal
C8_Witness ==
    /\ resp.op = "metrics"
    /\ resp.status = 200
    /\ ~\E r \in meal : ResolvesTo(resp.cookie, r.user_id)
    /\ \E r \in meal, u \in users : u.id = r.user_id

----------------------------------------------------------------------------
(* Properties of PATCH /meal/:id run without interleaving (SpecPatch) *)

\* C4: after the owner's PATCH of an existing meal each of name, description,
\* ate_at and is_diet holds the request's value when that value is truthy and the
\* stored value otherwise; no update changes a diet flag from true to false
C4_PatchKeepsFalsy ==
    /\ [][resp'.op = "patchMeal" =>
           \A b \in updateMealBodySchema :
             PatchMeal(resp'.cookie, resp'.id, b)
             => \A r \in meal :
                    (r.id = resp'.id /\ ResolvesTo(resp'.cookie, r.user_id)) =>
                        meal' = (meal \ {r}) \cup
                            {[id |-> r.id,
                              user_id |-> r.user_id,
                              name |-> IF b.name \in {Null, Some("")}
                                       THEN r.name ELSE b.name[1],
                              description |-> IF b.description \in {Null, Some("")}
                                              THEN r.description ELSE b.description[1],
                              ate_at |-> IF b.ate_at \in {Null, Some("")}
                                         THEN r.ate_at ELSE NewDate(b.ate_at[1]),
                              is_diet |-> IF b.is_diet \in {Null, Some(FALSE)}
                                          THEN r.is_diet ELSE b.is_diet[1]]}]_vars
    /\ [][\A r \in meal, t \in meal' : (r.id = t.id /\ r.is_diet) => t.is_diet]_vars

\* the owner's PATCH updated the meal, whose name is now the request's and whose
\* diet flag is still true
C4_Witness ==
    /\ resp.op = "patchMeal"
    /\ resp.status = 200
    /\ resp.body = [meal |-> 1]
    /\ \E r \in meal : r.id = resp.id /\ r.is_diet /\ r.name = "b" /\ r.ate_at = 2

----------------------------------------------------------------------------
(* Properties of interleaved PATCH requests (SpecConc) *)

\* id was issued to a meal and no row holds it: the owner's DELETE removed it
Deleted(id) == id \in 1..mealIds /\ \A r \in meal : r.id # id

\* C6: once the owner's DELETE of a meal id has completed, no later request brings
\* a row with that id back, and every GET of that id returns an absent meal
C6_DeletedStaysAbsent ==
    /\ [][\A id \in 1..mealIds :
             Deleted(id) =>
                 /\ \A r \in meal' : r.id # id
                 /\ \A c \in Sessions : GetMealBody(c, id)' = Undefined]_vars
    /\ [](resp.op = "getMeal" /\ Deleted(resp.id) => resp.body = Undefined)

\* the DELETE of a meal has completed while a PATCH that read the meal has yet to write
C6_Witness ==
    /\ resp.op = "deleteMeal"
    /\ resp.status = 204
    /\ Deleted(resp.id)
    /\ \E p \in Procs :
           /\ patching[p] # Idle
           /\ patching[p].id = resp.id
           /\ patching[p].meal # Undefined

\* the fields of row t that body b does not supply with a truthy value are those of r
SameUnsupplied(b, r, t) ==
    /\ (b.name \in {Null, Some("")} => t.name = r.name)
    /\ (b.description \in {Null, Some("")} => t.description = r.description)
    /\ (b.ate_at \in {Null, Some("")} => t.ate_at = r.ate_at)
    /\ (b.is_diet \in {Null, Some(FALSE)} => t.is_diet = r.is_diet)

\* C9: the write of a PATCH changes no field of the meal that its request does not
\* supply, also when another PATCH wrote the meal since this one read it
C9_FieldsIndependent ==
    [][\A p \in Procs, b \in FieldPatchBodies :
          PatchWrite(p, b) =>
              \A r \in meal :
                  (r.id = patching[p].id /\ r.user_id = patching[p].uid) =>
                      \E t \in meal' : t.id = r.id /\ SameUnsupplied(b, r, t)]_vars

\* C9 as amended: the write of a PATCH changes no field of the meal that its request
\* does not supply, provided the stored row is still the row the PATCH read
C9_FieldsIndependentUnlessStale ==
    [][\A p \in Procs, b \in FieldPatchBodies :
          PatchWrite(p, b) =>
              \A r \in meal :
                  (/\ r.id = patching[p].id
                   /\ r.user_id = patching[p].uid
                   /\ patching[p].meal = r) =>
                      \E t \in meal' : t.id = r.id /\ SameUnsupplied(b, r, t)]_vars

\* a PATCH has written the meal while another PATCH, which read the meal before
\* that write, has yet to write
C9_Witness ==
    /\ resp.op = "patchMeal"
    /\ resp.body = [meal |-> 1]
    /\ \E p \in Procs, r \in meal :
           /\ patching[p] # Idle
           /\ patching[p].id = resp.id
           /\ r.id = resp.id
           /\ patching[p].meal # Undefined
           /\ patching[p].meal # r

----------------------------------------------------------------------------
(* Properties of GET /metrics/ interleaved with writes (SpecMetrics) *)

\* the reply of GET /metrics/ adds up
Consistent(body) ==
    /\ body.mealsCount = body.inDiet + body.outDiet
    /\ body.bestScore <= body.inDiet

\* C10: every reply of GET /users/metrics/ has mealsCount = inDiet + outDiet and a
\* streak of at most inDiet
C10_MetricsConsistent ==
    (resp.op = "metrics" /\ resp.status = 200) => Consistent(resp.body)

\* C10 as amended: the reply has mealsCount = inDiet + outDiet and a streak of at
\* most inDiet when no create, update or delete of the same user ran between the
\* handler's four queries
C10_MetricsConsistentUndisturbed ==
    [][(/\ metrics # Idle
        /\ metrics.kind = "select"
        /\ metrics.clean
        /\ metrics' = Idle)
       => Consistent(resp'.body)]_vars

\* a reply counting a compliant and a non-compliant meal
C10_Witness ==
    /\ resp.op = "metrics"
    /\ resp.status = 200
    /\ resp.body.inDiet >= 1
    /\ resp.body.outDiet >= 1
    /\ resp.body.mealsCount = 2

====
